---- MODULE Spec2Model ----
(***************************************************************************)
(* Model of swifttool/client.py: SwiftRingsDefinition.generate_script and  *)
(* generate_commands, the per-host lshw cache _host_lshw_output, and the   *)
(* inventory parser _parse_lshw_output.                                    *)
(*                                                                         *)
(* Strings the code takes apart with regular expressions (disk names,      *)
(* block-device paths, size fields) are sequences of one-character         *)
(* strings, so the regular expressions are computed, not assumed.          *)
(* The text of an lshw listing is a sequence of chunks (the pieces         *)
(* re.split yields), each a sequence of lines; a line is a class line      *)
(* ("-disk"), a property line ("   key: value") or any other text.         *)
(***************************************************************************)
EXTENDS Integers, Sequences, FiniteSets, TLC

VARIABLES ringsdef, cache, pc, ri, di, rebalance, meta, commands, files,
          runs, fetched, firstOutput, filesAtStart, last, blockdev,
          resolved, used, error

vars == <<ringsdef, cache, pc, ri, di, rebalance, meta, commands, files,
          runs, fetched, firstOutput, filesAtStart, last, blockdev,
          resolved, used, error>>

(* ---------------------------- bounds ----------------------------------- *)
MaxZones == 2
MaxNodes == 2
MaxDisks == 2
MaxRuns == 2

(* Python's None, for values that are otherwise strings. *)
None == "None"

(* ------------------------- program constants --------------------------- *)
(* variant: the ring types in alphabetical order of their ports *)
RING_TYPES_ByPort == <<"object", "container", "account">>

RING_TYPES == <<"account", "container", "object">>

DefaultPorts == [object |-> 6000, container |-> 6001, account |-> 6002]

DefaultReplicas == 3

DefaultMinPartHours == 1

(* ------------------------------ inputs --------------------------------- *)
ZoneNames == [i \in 1..MaxZones |-> <<"z", i>>]

Hosts == [j \in 1..MaxNodes |-> <<"10.0.0.", j>>]

HostSet == {Hosts[j] : j \in 1..MaxNodes}

sda1 == <<"s", "d", "a", "1">>
sdb1 == <<"s", "d", "b", "1">>
sda10 == <<"s", "d", "a", "1", "0">>
sdc == <<"s", "d", "c">>

DiskNames == <<sda1, sdb1, sda10, sdc>>

PartPowers == {10}

Metas == {None, "", "rack7"}

ClassLine(c) == [t |-> "class", class |-> c]
PropLine(k, v) == [t |-> "prop", key |-> k, val |-> v]
OtherLine == [t |-> "other"]

DevSda == <<"/", "d", "e", "v", "/", "s", "d", "a">>
DevSdb == <<"/", "d", "e", "v", "/", "s", "d", "b">>

OutputA ==
    << <<>>,
       << ClassLine("disk"), PropLine("description", "ATA Disk"),
          PropLine("logical name", DevSda), PropLine("serial", "ABC123"),
          PropLine("size", <<"8", "G", "i", "B", " ", "(", "8", "G", "B", ")">>) >>,
       << ClassLine("disk"), PropLine("logical name", DevSdb),
          PropLine("serial", "XYZ789"),
          PropLine("size", <<"2", "0", "M", "i", "B">>) >> >>

OutputB ==
    << <<>>,
       << ClassLine("disk"), PropLine("logical name", DevSda),
          PropLine("serial", "NEW555"),
          PropLine("size", <<"1", "6", "G", "i", "B">>) >>,
       << ClassLine("disk"), PropLine("logical name", DevSdb),
          PropLine("size", <<"2", "0", "M", "i", "B">>), OtherLine >> >>

OutputC ==
    << << OtherLine >>,
       << ClassLine("disk"), PropLine("logical name", DevSdb),
          PropLine("serial", "XYZ789"),
          PropLine("size", <<"2", "T", "i", "B">>) >> >>

LshwOutputs == {OutputA, OutputB, OutputC}

(* What running "lshw -C disk" on a host can give: a listing, or a failed  *)
(* command.                                                                *)
RemoteOutcomes ==
    {[ok |-> TRUE, output |-> o] : o \in LshwOutputs}
        \cup {[ok |-> FALSE, output |-> <<>>]}

(* ------------------------- regular expressions ------------------------- *)
Digits == {"0", "1", "2", "3", "4", "5", "6", "7", "8", "9"}

DigitVal(c) ==
    CASE c = "0" -> 0 [] c = "1" -> 1 [] c = "2" -> 2 [] c = "3" -> 3
      [] c = "4" -> 4 [] c = "5" -> 5 [] c = "6" -> 6 [] c = "7" -> 7
      [] c = "8" -> 8 [] c = "9" -> 9

Whitespace == {" ", "\t"}

RECURSIVE SkipWhitespace(_)
(* \s* at the start of a pattern: the rest after the leading whitespace *)
SkipWhitespace(s) ==
    IF s # <<>> /\ Head(s) \in Whitespace THEN SkipWhitespace(Tail(s)) ELSE s

RECURSIVE DigitRunLen(_)
(* length of the run of digits s starts with *)
DigitRunLen(s) ==
    IF s # <<>> /\ Head(s) \in Digits THEN 1 + DigitRunLen(Tail(s)) ELSE 0

RECURSIVE ToInt(_)
(* int() of a sequence of decimal digits *)
ToInt(ds) ==
    IF ds = <<>> THEN 0
    ELSE 10 * ToInt(SubSeq(ds, 1, Len(ds) - 1)) + DigitVal(ds[Len(ds)])

\* re.match of the size pattern (optional whitespace, digits, M or G, "iB",
\* anything) on size: <<group(1)>>, or <<>> for no match
SizeMatch(size) ==
    LET s == SkipWhitespace(size)
        n == DigitRunLen(s)
    IN  IF /\ n >= 1
           /\ Len(s) >= n + 3
           /\ s[n + 1] \in {"M", "G"}
           /\ s[n + 2] = "i"
           /\ s[n + 3] = "B"
        THEN << SubSeq(s, 1, n) >>
        ELSE <<>>

\* re.match of the disk pattern (a greedy group of any characters, then one
\* or more digits, then the end) on disk: <<group(1)>>, or <<>> for no
\* match.  The group is greedy: it leaves the one digit the digit part
\* needs and no more.
DiskMatch(disk) ==
    IF disk # <<>> /\ disk[Len(disk)] \in Digits
    THEN << SubSeq(disk, 1, Len(disk) - 1) >>
    ELSE <<>>

(* '/dev/%s' % match.group(1) *)
BlockDev(group1) == <<"/", "d", "e", "v", "/">> \o group1

(* re.sub('\s', '_', key) on the keys lshw prints *)
KeySub(key) == IF key = "logical name" THEN "logical_name" ELSE key

(* --------------------------- _parse_lshw_output ------------------------ *)
Put(d, k, v) == [x \in DOMAIN d \cup {k} |-> IF x = k THEN v ELSE d[x]]

RECURSIVE ParseLines(_, _)
(* the loop over the lines of one chunk, filling the dict d *)
ParseLines(lines, d) ==
    IF lines = <<>> THEN d
    ELSE LET line == Head(lines)
             d2 == CASE line.t = "class" -> Put(d, "class", line.class)
                      [] line.t = "prop" -> Put(d, KeySub(line.key), line.val)
                      [] OTHER -> d
         IN  ParseLines(Tail(lines), d2)

EmptyDict == [x \in {} |-> None]

RECURSIVE AllDisks(_)
(* alldisks: the dict of every chunk that has a class line *)
AllDisks(chunks) ==
    IF chunks = <<>> THEN <<>>
    ELSE LET d == ParseLines(Head(chunks), EmptyDict)
         IN  (IF "class" \in DOMAIN d THEN <<d>> ELSE <<>>)
             \o AllDisks(Tail(chunks))

Return(v) == [kind |-> "return", val |-> v]
ReturnNone == [kind |-> "none"]
Raise(e) == [kind |-> "raise", exc |-> e]

RECURSIVE FindDisk(_, _)
(* the loop over alldisks: the first record whose logical_name is blockdev *)
FindDisk(alldisks, bdev) ==
    IF alldisks = <<>> THEN ReturnNone
    ELSE LET d == Head(alldisks)
         IN  IF "logical_name" \notin DOMAIN d THEN Raise("KeyError: logical_name")
             ELSE IF d["logical_name"] # bdev THEN FindDisk(Tail(alldisks), bdev)
             ELSE IF "serial" \notin DOMAIN d THEN Raise("KeyError: serial")
             ELSE IF "size" \notin DOMAIN d THEN Raise("KeyError: size")
             ELSE IF SizeMatch(d["size"]) = <<>>
                  THEN Raise("Could not find size of disk")
             ELSE Return(<< ToInt(SizeMatch(d["size"])[1]), d["serial"] >>)

parse_lshw_output(output, bdev) == FindDisk(AllDisks(output), bdev)

(* TRUE when no record of the listing has bdev as its logical name *)
NoRecordMatches(output, bdev) ==
    LET all == AllDisks(output)
    IN  \A i \in 1..Len(all) :
            "logical_name" \in DOMAIN all[i] => all[i]["logical_name"] # bdev

(* ------------------------ SwiftRingsDefinition ------------------------- *)
OutDir == "/tmp/rings"

ScriptName == "ring_builder.sh"

(* The disks of a node: d names of DiskNames, starting at the first-th. *)
DiskList(first, d) ==
    [k \in 1..d |-> DiskNames[((first + k - 2) % Len(DiskNames)) + 1]]

(* zones, as the sequence of (zone, nodes) the dict iterates in; nodes as  *)
(* the sequence of (node, disks) its dict iterates in.  The same hosts     *)
(* serve every zone.                                                       *)
Zones(n, m, d, first, rev) ==
    [i \in 1..n |->
        [zone |-> ZoneNames[IF rev THEN n + 1 - i ELSE i],
         nodes |-> [j \in 1..m |->
                       [node |-> Hosts[j], disks |-> DiskList(first, d)]]]]

(* __init__: the defaults, then __dict__.update(data) *)
Definition(data) ==
    LET defaults == [ring_builder_cmd |-> "swift-ring-builder",
                     ports |-> DefaultPorts,
                     replicas |-> DefaultReplicas,
                     min_part_hours |-> DefaultMinPartHours,
                     zones |-> <<>>]
    IN  [k \in DOMAIN defaults \cup DOMAIN data |->
            IF k \in DOMAIN data THEN data[k] ELSE defaults[k]]

RECURSIVE WalkDisks(_, _, _)
WalkDisks(zone, node, disks) ==
    IF disks = <<>> THEN <<>>
    ELSE << [zone |-> zone, node |-> node, disk |-> Head(disks)] >>
         \o WalkDisks(zone, node, Tail(disks))

RECURSIVE WalkNodes(_, _)
WalkNodes(zone, nodes) ==
    IF nodes = <<>> THEN <<>>
    ELSE WalkDisks(zone, Head(nodes).node, Head(nodes).disks)
         \o WalkNodes(zone, Tail(nodes))

RECURSIVE WalkZones(_)
(* the (zone, node, disk) triples in the order the three nested loops of   *)
(* generate_commands visit them                                            *)
WalkZones(zones) ==
    IF zones = <<>> THEN <<>>
    ELSE WalkNodes(Head(zones).zone, Head(zones).nodes)
         \o WalkZones(Tail(zones))

Walk == WalkZones(ringsdef.zones)

(* variant: a create command that falls back to a default part power *)
ring_create_command_Default(def, ringtype, outdir) ==
    Return([op |-> "create", cmd |-> def.ring_builder_cmd,
            builder |-> <<outdir, ringtype>>,
            part_power |-> IF "part_power" \in DOMAIN def
                           THEN def.part_power ELSE 0,
            replicas |-> def.replicas,
            min_part_hours |-> def.min_part_hours])

(* _ring_create_command: self.part_power is read when the command is built *)
ring_create_command(def, ringtype, outdir) ==
    IF "part_power" \notin DOMAIN def
    THEN Raise("AttributeError: part_power")
    ELSE Return([op |-> "create", cmd |-> def.ring_builder_cmd,
                 builder |-> <<outdir, ringtype>>,
                 part_power |-> def.part_power, replicas |-> def.replicas,
                 min_part_hours |-> def.min_part_hours])

ring_add_command(def, ringtype, outdir, zone, host, port, disk, metadata, weight) ==
    [op |-> "add", cmd |-> def.ring_builder_cmd,
     builder |-> <<outdir, ringtype>>, zone |-> zone, host |-> host,
     port |-> port, disk |-> disk, metadata |-> metadata, weight |-> weight]

ring_rebalance_command(def, ringtype, outdir) ==
    [op |-> "rebalance", cmd |-> def.ring_builder_cmd,
     builder |-> <<outdir, ringtype>>]

(* self.ports[ringtype] *)
PortOf(def, ringtype) == def.ports[ringtype]

(* variant: the rebalance command is emitted whatever rebalance is *)
RebalanceCommands_Always(def, reb, ringtype, outdir) ==
    << ring_rebalance_command(def, ringtype, outdir) >>

(* "if rebalance: commands.append(...)" at the end of a ring type *)
RebalanceCommands(def, reb, ringtype, outdir) ==
    IF reb THEN << ring_rebalance_command(def, ringtype, outdir) >> ELSE <<>>

(* "metadata = meta; if not meta: metadata = serial" *)
Metadata(m, serial) == IF m = None \/ m = "" THEN serial ELSE m

(* ----------------------- _fab_get_disk_size_serial --------------------- *)
(* variant: the cache is never consulted *)
CacheHit_Never(c, ip) == FALSE

(* "if ip in _host_lshw_output" *)
CacheHit(c, ip) == ip \in DOMAIN c

(* variant: the fetched listing is not stored *)
StoreOutput_Forgets(c, ip, output) == c

(* "_host_lshw_output[ip] = output" *)
StoreOutput(c, ip, output) == Put(c, ip, output)

(* One call of get_disk_size_serial(ip, blockdev).  remote is what sudo    *)
(* gives if it is run: a listing, or a failed command, on which fabric     *)
(* aborts.  The result names the cache afterwards, whether the             *)
(* remote command was run, the listing parsed and the outcome.             *)
get_disk_size_serial(c, ip, bdev, remote) ==
    IF CacheHit(c, ip)
    THEN [cache |-> c, ran |-> FALSE, output |-> << c[ip] >>,
          out |-> parse_lshw_output(c[ip], bdev)]
    ELSE IF ~remote.ok
    THEN [cache |-> c, ran |-> TRUE, output |-> <<>>,
          out |-> Raise("RemoteCommandError")]
    ELSE [cache |-> StoreOutput(c, ip, remote.output), ran |-> TRUE,
          output |-> << remote.output >>,
          out |-> parse_lshw_output(remote.output, bdev)]

(* variant: a missing result is replaced by a zero weight and no serial *)
Unpack_Default(out) ==
    IF out.kind = "none" THEN Return(<< 0, "" >>) ELSE out

(* "weight, serial = get_disk_size_serial(...)": None does not unpack *)
Unpack(out) ==
    IF out.kind = "none" THEN Raise("TypeError: 'NoneType' object is not iterable")
    ELSE out

(* ------------------------------- state --------------------------------- *)
(* ringsdef      the SwiftRingsDefinition object (its __dict__)            *)
(* cache         _host_lshw_output, the module-level dict                  *)
(* pc, ri, di    where generate_script is: the ring type and the disk of   *)
(*               Walk the loops of generate_commands are at                *)
(* rebalance, meta   the arguments of the running generate_script          *)
(* commands      the list generate_commands is building                    *)
(* files         the output directory: file name -> content and mode       *)
(* runs          generate_script calls made by this process                *)
(* fetched       per host, how often lshw was run in the current call      *)
(* firstOutput   per host, the listing its first fetch returned            *)
(* filesAtStart  the output directory when the current call began          *)
(* last, blockdev, resolved, used   the last disk resolution: its (zone,   *)
(*               node, disk), device path, outcome and the listing parsed  *)
(* error         the exception that ended the current call, if any         *)
Unset == [kind |-> "unset"]

Shebang == [op |-> "shebang"]

(* an output directory that holds an earlier, non-executable script *)
StaleDir == Put(EmptyDict, ScriptName, [content |-> <<Shebang>>, exec |-> FALSE])

NoFetches == [h \in HostSet |-> 0]

Init ==
    /\ \E n \in 0..MaxZones, m \in 0..MaxNodes, d \in 0..MaxDisks,
          first \in 1..Len(DiskNames), rev \in BOOLEAN,
          pp \in PartPowers \cup {0} :
          LET zs == [zones |-> Zones(n, m, d, first, rev)]
          IN  ringsdef = Definition(IF pp = 0 THEN zs
                                    ELSE Put(zs, "part_power", pp))
    /\ cache = EmptyDict
    /\ pc = "idle"
    /\ ri = 1
    /\ di = 1
    /\ rebalance = TRUE
    /\ meta = None
    /\ commands = <<>>
    /\ files \in {EmptyDict, StaleDir}
    /\ runs = 0
    /\ fetched = NoFetches
    /\ firstOutput = EmptyDict
    /\ filesAtStart = files
    /\ last = <<>>
    /\ blockdev = <<>>
    /\ resolved = Unset
    /\ used = <<>>
    /\ error = None

(* generate_script is called: commands = [shebang], generate_commands      *)
(* starts with an empty list at the first ring type.                       *)
StartRun ==
    /\ pc \in {"idle", "done", "failed"}
    /\ runs < MaxRuns
    /\ \E reb \in BOOLEAN, m \in Metas :
          /\ rebalance' = reb
          /\ meta' = m
    /\ runs' = runs + 1
    /\ pc' = "create"
    /\ ri' = 1
    /\ di' = 1
    /\ commands' = <<>>
    /\ fetched' = NoFetches
    /\ filesAtStart' = files
    /\ last' = <<>>
    /\ blockdev' = <<>>
    /\ resolved' = Unset
    /\ used' = <<>>
    /\ error' = None
    /\ UNCHANGED <<ringsdef, cache, files, firstOutput>>

(* an exception leaves generate_commands and generate_script *)
Fail(e) ==
    /\ pc' = "failed"
    /\ error' = e
    /\ UNCHANGED <<ri, di, commands, files>>

(* "commands.append(self._ring_create_command(ringtype, outdir))" *)
Create ==
    /\ pc = "create"
    /\ LET c == ring_create_command(ringsdef, RING_TYPES[ri], OutDir)
       IN  IF c.kind = "raise"
           THEN Fail(c.exc)
           ELSE /\ commands' = Append(commands, c.val)
                /\ pc' = IF Walk = <<>> THEN "endring" ELSE "add"
                /\ di' = 1
                /\ UNCHANGED <<ri, files, error>>
    /\ UNCHANGED <<ringsdef, cache, rebalance, meta, runs, fetched,
                   firstOutput, filesAtStart, last, blockdev, resolved,
                   used>>

(* the body of the innermost loop, for the disk Walk[di] *)
Add ==
    /\ pc = "add"
    /\ LET e == Walk[di]
           match == DiskMatch(e.disk)
       IN  IF match = <<>>
           THEN /\ Fail("AttributeError: 'NoneType' object has no attribute 'group'")
                /\ last' = << e >>
                /\ blockdev' = <<>>
                /\ resolved' = Unset
                /\ used' = <<>>
                /\ UNCHANGED <<cache, fetched, firstOutput>>
           ELSE \E remote \in RemoteOutcomes :
                LET bdev == BlockDev(match[1])
                    r == get_disk_size_serial(cache, e.node, bdev, remote)
                    u == Unpack(r.out)
                IN  /\ blockdev' = bdev
                    /\ last' = << e >>
                    /\ cache' = r.cache
                    /\ fetched' = IF r.ran
                                  THEN [fetched EXCEPT ![e.node] = @ + 1]
                                  ELSE fetched
                    /\ firstOutput' =
                          IF r.ran /\ r.output # <<>>
                             /\ e.node \notin DOMAIN firstOutput
                          THEN Put(firstOutput, e.node, r.output[1])
                          ELSE firstOutput
                    /\ resolved' = r.out
                    /\ used' = r.output
                    /\ IF u.kind = "raise"
                       THEN Fail(u.exc)
                       ELSE /\ commands' = Append(commands,
                                  ring_add_command(ringsdef, RING_TYPES[ri],
                                      OutDir, e.zone, e.node,
                                      PortOf(ringsdef, RING_TYPES[ri]), e.disk,
                                      Metadata(meta, u.val[2]), u.val[1]))
                            /\ di' = di + 1
                            /\ pc' = IF di = Len(Walk) THEN "endring" ELSE "add"
                            /\ UNCHANGED <<ri, files, error>>
    /\ UNCHANGED <<ringsdef, rebalance, meta, runs, filesAtStart>>

(* the end of one ring type: the rebalance command if asked for, then the  *)
(* next ring type, or "return commands" after the last                     *)
EndRing ==
    /\ pc = "endring"
    /\ commands' = commands \o RebalanceCommands(ringsdef, rebalance,
                                                 RING_TYPES[ri], OutDir)
    /\ IF ri = Len(RING_TYPES)
       THEN pc' = "write" /\ ri' = ri
       ELSE pc' = "create" /\ ri' = ri + 1
    /\ UNCHANGED <<ringsdef, cache, di, rebalance, meta, files, runs, fetched,
                   firstOutput, filesAtStart, last, blockdev, resolved,
                   used, error>>

(* generate_script after generate_commands returned: open, write every    *)
(* command, close, chmod +x                                                *)
WriteScript ==
    /\ pc = "write"
    /\ files' = Put(files, ScriptName,
                    [content |-> <<Shebang>> \o commands, exec |-> TRUE])
    /\ pc' = "done"
    /\ UNCHANGED <<ringsdef, cache, ri, di, rebalance, meta, commands, runs,
                   fetched, firstOutput, filesAtStart, last, blockdev,
                   resolved, used, error>>

Next == StartRun \/ Create \/ Add \/ EndRing \/ WriteScript

Spec == Init /\ [][Next]_vars

(* ------------------------------ properties ----------------------------- *)
Succeeded == pc \in {"write", "done"}

NumZones == Len(ringsdef.zones)

NodesPerZone == IF NumZones = 0 THEN 0 ELSE Len(ringsdef.zones[1].nodes)

DisksPerNode ==
    IF NodesPerZone = 0 THEN 0 ELSE Len(ringsdef.zones[1].nodes[1].disks)

Indices(ringtype, op) ==
    {i \in 1..Len(commands) :
        commands[i].builder = <<OutDir, ringtype>> /\ commands[i].op = op}

RingRank == [account |-> 1, container |-> 2, object |-> 3]

OpRank == [create |-> 1, add |-> 2, rebalance |-> 3]

Adds == {i \in 1..Len(commands) : commands[i].op = "add"}

(* C1: a successful generate_commands returns                              *)
(* 3 * (1 + N*M*D + (1 if rebalance else 0)) commands: per ring type one   *)
(* create, one add per (zone, node, disk), and one rebalance only when     *)
(* rebalance is true.                                                      *)
C1_CommandCount ==
    Succeeded =>
        /\ Len(commands) =
              3 * (1 + NumZones * NodesPerZone * DisksPerNode
                     + (IF rebalance THEN 1 ELSE 0))
        /\ \A t \in {"account", "container", "object"} :
              /\ Cardinality(Indices(t, "create")) = 1
              /\ Cardinality(Indices(t, "add"))
                    = NumZones * NodesPerZone * DisksPerNode
              /\ Cardinality(Indices(t, "rebalance"))
                    = (IF rebalance THEN 1 ELSE 0)

C1_Witness ==
    /\ pc = "done"
    /\ NumZones = 2 /\ NodesPerZone = 2 /\ DisksPerNode = 2
    /\ ~rebalance

(* C2: the commands are grouped by ring type in the order account,         *)
(* container, object; in a group the create comes first, then every add,   *)
(* then the rebalance, before the next ring type's create.                 *)
C2_Order ==
    /\ \A i, j \in 1..Len(commands) :
          i < j =>
            LET a == commands[i]
                b == commands[j]
            IN  \/ RingRank[a.builder[2]] < RingRank[b.builder[2]]
                \/ /\ a.builder = b.builder
                   /\ \/ OpRank[a.op] < OpRank[b.op]
                      \/ a.op = "add" /\ b.op = "add"
    /\ Succeeded =>
          /\ commands[1].op = "create"
          /\ commands[1].builder = <<OutDir, "account">>
          /\ \A t \in {"account", "container", "object"} :
                Indices(t, "create") # {}

C2_Witness ==
    /\ pc = "done"
    /\ rebalance
    /\ Cardinality(Indices("object", "add")) >= 2

(* C3: in one generation run lshw is executed at most once per host, and   *)
(* every resolution for a host parses the listing its first fetch gave.    *)
C3_OneFetchPerHost ==
    /\ \A h \in HostSet : fetched[h] <= 1
    /\ used # <<>> =>
          /\ last[1].node \in DOMAIN firstOutput
          /\ used[1] = firstOutput[last[1].node]

C3_Witness ==
    /\ pc = "done"
    /\ DisksPerNode >= 2
    /\ \E h \in HostSet : fetched[h] = 1

(* C4: with a metadata override no disk's serial is read (a record without *)
(* a serial does not fail the run), the override is the identifier of      *)
(* every add command, and the weight is the discovered one.                *)
C4_OverrideSkipsSerial ==
    meta \notin {None, ""} =>
        /\ error # "KeyError: serial"
        /\ \A i \in Adds : commands[i].metadata = meta

(* C5: for a disk name ending in digits the block-device path is "/dev/"   *)
(* followed by the name with its whole trailing run of digits removed.     *)
RECURSIVE StripDigits(_)
StripDigits(name) ==
    IF name # <<>> /\ name[Len(name)] \in Digits
    THEN StripDigits(SubSeq(name, 1, Len(name) - 1))
    ELSE name

C5_BlockDevStripsDigitRun ==
    (last # <<>> /\ blockdev # <<>>) =>
        blockdev = <<"/", "d", "e", "v", "/">> \o StripDigits(last[1].disk)

(* C6: if resolution fails for a disk (remote command error, no matching   *)
(* record, unparsable size) generate_script aborts and no file of the      *)
(* output directory is created or modified.                                *)
C6_FailFastNoScript ==
    /\ resolved.kind \in {"none", "raise"} => pc = "failed"
    /\ pc = "failed" => files = filesAtStart
    /\ files # filesAtStart => pc = "done"

C6_Witness ==
    /\ pc = "failed"
    /\ resolved.kind = "none"
    /\ Adds # {}
    /\ ScriptName \in DOMAIN files

(* C7: without part_power generation fails before any remote call: no      *)
(* host's inventory is ever fetched, whatever the topology.                *)
C7_NoPartPowerNoFetch ==
    "part_power" \notin DOMAIN ringsdef =>
        /\ \A h \in HostSet : fetched[h] = 0
        /\ cache = EmptyDict
        /\ commands = <<>>
        /\ pc \in {"idle", "create", "failed"}

C7_Witness ==
    /\ "part_power" \notin DOMAIN ringsdef
    /\ pc = "failed"
    /\ error = "AttributeError: part_power"
    /\ Len(Walk) >= 2

(* C8: resolving a disk whose block-device path is the logical name of no  *)
(* record fails with an error; the resolver never returns normally then.   *)
C8_NoMatchRaises ==
    (used # <<>> /\ NoRecordMatches(used[1], blockdev)) =>
        resolved.kind = "raise"

(* C9: at the start of every generation run the cache holds no host.       *)
C9_CacheEmptyAtRunStart ==
    (pc = "create" /\ ri = 1) => cache = EmptyDict

(* C10: in a successful result every (zone, node, disk) has exactly one    *)
(* add command in each ring type; its three add commands carry the same    *)
(* weight and identifier and differ only in the builder file and the port, *)
(* which is the port of the ring type.                                     *)
C10_SameAddPerRing ==
    /\ \A i, j \in Adds :
          LET a == commands[i]
              b == commands[j]
          IN  /\ a.port = DefaultPorts[a.builder[2]]
              /\ (a.zone = b.zone /\ a.host = b.host /\ a.disk = b.disk) =>
                    /\ a.weight = b.weight
                    /\ a.metadata = b.metadata
                    /\ a.cmd = b.cmd
                    /\ (a.builder = b.builder => i = j)
    /\ Succeeded =>
          \A k \in 1..Len(Walk), t \in {"account", "container", "object"} :
              Cardinality({i \in Indices(t, "add") :
                              /\ commands[i].zone = Walk[k].zone
                              /\ commands[i].host = Walk[k].node
                              /\ commands[i].disk = Walk[k].disk}) = 1

C10_Witness ==
    /\ pc = "done"
    /\ meta = None
    /\ Len(Walk) >= 4
    /\ \E i \in Adds : commands[i].weight = 16

====
